---- MODULE Spec2Model ----
(***************************************************************************)
(* Model of punitarani/prompt-gen.                                         *)
(*                                                                         *)
(* Part 1: loader.chunk_text (src/loader.py), the recursive chunker.       *)
(* Part 2: the generate button, the generate_data thread and the           *)
(*         generating_data flag of the dashboard (src/app.py).             *)
(*                                                                         *)
(* Strings of the chunker are sequences of POSITIONS of the input text:    *)
(* the character of position p is text[p].  A slice, a concatenation and   *)
(* a strip of a Python string are the same operations on the sequence of   *)
(* positions, and the string itself is Str(t, s).  Keeping the positions   *)
(* lets the properties speak about where in the input a chunk comes from.  *)
(***************************************************************************)
EXTENDS Integers, Sequences, FiniteSets, TLC

(***************************************************************************)
(* Bounds of the model.                                                    *)
(***************************************************************************)
MaxLen == 5
MaxChars == 3
MaxFiles == 2
MaxRuns == 2

(***************************************************************************)
(* Character classes of the regular expression and of str.strip.           *)
(***************************************************************************)
Upper == {"A"}
Lower == {"a"}
Word == Upper \cup Lower \cup {"0", "_"}
Space == {" ", "\n", "\t"}
Terminal == {".", "?"}

\* the characters the input texts are drawn from
Chars == {"a", "A", ".", "?", " "}

\* CPython's default recursion limit (sys.getrecursionlimit()), which the
\* recursive calls of split_sentences run into
RecursionLimit == 1000

VARIABLES
    text,           \* chunk_text: the argument text, a sequence of characters
    min_chars,      \* chunk_text: the argument min_chars
    max_chars,      \* chunk_text: the argument max_chars
    sentence_list,  \* split_sentences: the sentences not yet consumed
    current_chunk,  \* split_sentences: the chunk being accumulated
    chunks,         \* chunk_text: the list of emitted chunks
    depth,          \* number of stack frames, chunk_text's frame being 1
    pc,             \* "call": a split_sentences frame starts; "returned";
                    \* "RecursionError"
    how,            \* history: how[k] is the emission point of chunks[k]
    dropped         \* history: the chunks the min_chars filter dropped

chunkVars == <<text, min_chars, max_chars, sentence_list, current_chunk,
               chunks, depth, pc, how, dropped>>

VARIABLES
    generating_data,        \* app.py: the global flag
    upload_data_store,      \* the dcc.Store of uploaded files
    btn_generate_disabled,  \* the "disabled" property of btn-generate
    btn_download_disabled,  \* the "disabled" property of btn-download
    runs,                   \* the generate_data threads, in order of start
    response                \* the outcome of the last generate_handler

appVars == <<generating_data, upload_data_store, btn_generate_disabled,
             btn_download_disabled, runs, response>>

vars == <<chunkVars, appVars>>

----------------------------------------------------------------------------
(***************************************************************************)
(* Helpers on sequences of positions.                                      *)
(***************************************************************************)
Range(a, b) == [k \in 1..(b - a + 1) |-> a + k - 1]

Min(S) == CHOOSE x \in S : \A y \in S : x <= y

Max(S) == CHOOSE x \in S : \A y \in S : x >= y

PosSet(s) == {s[k] : k \in DOMAIN s}

\* the Python string a sequence of positions of t stands for
Str(t, s) == [k \in DOMAIN s |-> t[s[k]]]

RECURSIVE Flatten(_)
Flatten(ss) == IF ss = <<>> THEN <<>> ELSE Head(ss) \o Flatten(Tail(ss))

\* the positions of s whose character is not whitespace, in order
NoWS(t, s) == LET keep(p) == t[p] \notin Space IN SelectSeq(s, keep)

\* str.strip(): leading and trailing whitespace removed
strip(t, s) ==
    LET solid == {k \in DOMAIN s : t[s[k]] \notin Space}
    IN  IF solid = {} THEN <<>> ELSE SubSeq(s, Min(solid), Max(solid))

(***************************************************************************)
(* sentence_pattern, loader.py line 48:                                    *)
(*     (?<!\w\.\w.)(?<![A-Z][a-z]\.)(?<=\.|\?)\s                           *)
(* position i of t is matched when t[i] is whitespace, the character       *)
(* before it is "." or "?", and neither negative lookbehind matches.       *)
(***************************************************************************)
sentence_pattern(t, i) ==
    /\ t[i] \in Space
    /\ i > 1
    /\ t[i - 1] \in Terminal
    /\ ~ (/\ i > 4
          /\ t[i - 4] \in Word
          /\ t[i - 3] = "."
          /\ t[i - 2] \in Word
          /\ t[i - 1] # "\n")
    /\ ~ (/\ i > 3
          /\ t[i - 3] \in Upper
          /\ t[i - 2] \in Lower
          /\ t[i - 1] = ".")

\* re.split(sentence_pattern, text) from position start on: the pieces
\* between the matches, the matched whitespace character removed
RECURSIVE re_split(_, _)
re_split(t, start) ==
    LET cuts == {i \in start..Len(t) : sentence_pattern(t, i)}
    IN  IF cuts = {}
        THEN <<Range(start, Len(t))>>
        ELSE <<Range(start, Min(cuts) - 1)>> \o re_split(t, Min(cuts) + 1)

sentences(t) == re_split(t, 1)

----------------------------------------------------------------------------
(***************************************************************************)
(* The conditions and slices of split_sentences.                           *)
(***************************************************************************)
\* (variant: the limit compared off by one)
TooLong_OffByOne(cc) == Len(cc) > max_chars + 1

\* line 62: len(current_chunk) > max_chars
TooLong(cc) == Len(cc) > max_chars

\* line 64: current_chunk[:max_chars]
Sliced(cc) == SubSeq(cc, 1, max_chars)

\* (variant: the rest starts one character late)
remaining_text_SkipsOne(cc) == SubSeq(cc, max_chars + 2, Len(cc))

\* line 65: current_chunk[max_chars:]
remaining_text(cc) == SubSeq(cc, max_chars + 1, Len(cc))

\* (variant: the length of the sentence is left out)
Fits_IgnoresSentence(cc, s) == Len(cc) <= max_chars

\* line 70: len(current_chunk) + len(current_sentence) <= max_chars
Fits(cc, s) == Len(cc) + Len(s) <= max_chars

\* (variant: no floor)
KeepChunk_NoFloor(cc) == Len(cc) >= 0

\* (variant: the floor is exclusive)
KeepChunk_Exclusive(cc) == Len(cc) > min_chars

\* lines 74 and 80: len(current_chunk) >= min_chars
KeepChunk(cc) == Len(cc) >= min_chars

\* (variant: the chunk is put in front)
Emit_InFront(cs, c) == <<c>> \o cs

\* chunks.append(c)
Emit(cs, c) == Append(cs, c)

\* lines 66 and 77: the recursive call split_sentences(sl, cc).  Python does
\* not eliminate tail calls: the call adds a frame, and raises
\* RecursionError when the stack would exceed the recursion limit.
Recurse(sl, cc) ==
    IF depth + 1 > RecursionLimit
    THEN /\ pc' = "RecursionError"
         /\ sentence_list' = sl
         /\ UNCHANGED <<current_chunk, depth>>
    ELSE /\ pc' = "call"
         /\ depth' = depth + 1
         /\ sentence_list' = sl
         /\ current_chunk' = cc

\* lines 62-66: the current chunk exceeds max_chars, its first max_chars
\* characters are emitted and the rest is processed recursively
ForcedSlice ==
    /\ pc = "call"
    /\ TooLong(current_chunk)
    /\ chunks' = Emit(chunks, strip(text, Sliced(current_chunk)))
    /\ how' = Append(how, "slice")
    /\ Recurse(sentence_list, remaining_text(current_chunk))
    /\ UNCHANGED <<text, min_chars, max_chars, dropped>>
    /\ UNCHANGED appVars

\* lines 67-77: the next sentence is popped and appended, or the current
\* chunk is closed out and the sentence starts the next one
ConsumeSentence ==
    /\ pc = "call"
    /\ ~ TooLong(current_chunk)
    /\ Len(sentence_list) > 0
    /\ LET current_sentence == Head(sentence_list)
           rest == Tail(sentence_list)
       IN  IF Fits(current_chunk, current_sentence)
           THEN /\ Recurse(rest, current_chunk \o current_sentence)
                /\ UNCHANGED <<chunks, how, dropped>>
           ELSE /\ IF KeepChunk(current_chunk)
                   THEN /\ chunks' = Emit(chunks, strip(text, current_chunk))
                        /\ how' = Append(how, "overflow")
                        /\ UNCHANGED dropped
                   ELSE /\ dropped' = Append(dropped, current_chunk)
                        /\ UNCHANGED <<chunks, how>>
                /\ Recurse(rest, current_sentence)
    /\ UNCHANGED <<text, min_chars, max_chars>>
    /\ UNCHANGED appVars

\* lines 78-81 and 84: no sentence is left, the last chunk is emitted or
\* dropped, every frame returns and chunk_text returns chunks
LastChunk ==
    /\ pc = "call"
    /\ ~ TooLong(current_chunk)
    /\ Len(sentence_list) = 0
    /\ IF KeepChunk(current_chunk)
       THEN /\ chunks' = Emit(chunks, strip(text, current_chunk))
            /\ how' = Append(how, "end")
            /\ UNCHANGED dropped
       ELSE /\ dropped' = Append(dropped, current_chunk)
            /\ UNCHANGED <<chunks, how>>
    /\ pc' = "returned"
    /\ depth' = 1
    /\ UNCHANGED <<text, min_chars, max_chars, sentence_list, current_chunk>>
    /\ UNCHANGED appVars

\* lines 51-54 and 83: the state at the first call split_sentences(sentences, "")
chunk_text(t, lo, hi) ==
    /\ text = t
    /\ min_chars = lo
    /\ max_chars = hi
    /\ sentence_list = sentences(t)
    /\ current_chunk = <<>>
    /\ chunks = <<>>
    /\ depth = 2
    /\ pc = "call"
    /\ how = <<>>
    /\ dropped = <<>>

\* app.py lines 24-34 and the layout (lines 374, 430, 438): the dashboard
\* after start-up, nothing uploaded and no generation started
AppStart ==
    /\ generating_data = FALSE
    /\ upload_data_store = <<>>
    /\ btn_generate_disabled = FALSE
    /\ btn_download_disabled = FALSE
    /\ runs = <<>>
    /\ response = "none"

\* every text of at most MaxLen characters
Texts == UNION {[1..n -> Chars] : n \in 0..MaxLen}

Init ==
    /\ \E t \in Texts : \E hi \in 1..MaxChars : \E lo \in 1..hi :
          chunk_text(t, lo, hi)
    /\ AppStart

Next == ForcedSlice \/ ConsumeSentence \/ LastChunk

Spec == Init /\ [][Next]_vars

(***************************************************************************)
(* Long inputs: a text "aaa..." of n characters without a sentence break,  *)
(* chunked one character at a time, for small n and for n up to            *)
(* RecursionLimit; and a short text of several sentences.                  *)
(***************************************************************************)
LongRun(n) == [i \in 1..n |-> "a"]

ManySentences(n) ==
    [i \in 1..(3 * n - 1) |->
        IF i % 3 = 1 THEN "a" ELSE IF i % 3 = 2 THEN "." ELSE " "]

DeepSizes == {3, RecursionLimit - 3, RecursionLimit}

DeepInit ==
    /\ \/ \E n \in DeepSizes : chunk_text(LongRun(n), 1, 1)
       \/ chunk_text(ManySentences(3), 2, 2)
    /\ AppStart

DeepSpec == DeepInit /\ [][Next]_vars

----------------------------------------------------------------------------
(***************************************************************************)
(* Part 2: the dashboard (src/app.py).                                     *)
(*                                                                         *)
(* A file name is a sequence of characters.  The content of a file is one  *)
(* of three kinds: "garbage" (bytes its reader rejects: invalid UTF-8 for  *)
(* a txt, not a document for a pdf), "text" (a document chunk_text turns   *)
(* into TextChunks chunks) and "huge" (a document on which chunk_text      *)
(* raises RecursionError, see DeepSpec).                                   *)
(***************************************************************************)
FileNames ==
    { <<"a", ".", "t", "x", "t">>,
      <<"a", ".", "p", "d", "f">>,
      <<"a", "p", "d", "f">>,
      <<"a", ".", "m", "d">> }

Contents == {"garbage", "text", "huge"}

\* the number of chunks of a "text" document
TextChunks == 2

\* len(data): the global list holds one sample row; the workers never
\* extend it, see generate_data_thread
data_len == 1

\* an optional value of a callback: None, or Some(x)
None == <<>>

Some(x) == <<x>>

\* lines 125-131: filename.endswith(("pdf", "txt"))
valid_file(filename) ==
    /\ Len(filename) >= 3
    /\ SubSeq(filename, Len(filename) - 2, Len(filename))
          \in { <<"p", "d", "f">>, <<"t", "x", "t">> }

\* line 109: file_name.split(".")[-1]
extension(file_name) ==
    LET dots == {i \in DOMAIN file_name : file_name[i] = "."}
    IN  IF dots = {} THEN file_name
        ELSE SubSeq(file_name, Max(dots) + 1, Len(file_name))

\* loader.py lines 10-36: read_file raises NotImplementedError for an
\* extension other than pdf and txt, and the decoder raises on garbage
read_file_raises(file) ==
    \/ extension(file.name) \notin { <<"p", "d", "f">>, <<"t", "x", "t">> }
    \/ file.content = "garbage"

\* line 112: chunk_text(file_content) raises RecursionError on a huge text
chunk_text_raises(file) == file.content = "huge"

\* line 112: len(chunk_text(file_content))
chunk_count(file) == IF file.content = "text" THEN TextChunks ELSE 0

\* lines 174-184: the valid files among the uploaded ones are appended
RECURSIVE append_valid(_, _, _)
append_valid(files, list_of_names, list_of_contents) ==
    IF list_of_names = <<>> \/ list_of_contents = <<>>
    THEN files
    ELSE append_valid(
            IF valid_file(Head(list_of_names))
            THEN Append(files, [name |-> Head(list_of_names),
                                content |-> Head(list_of_contents)])
            ELSE files,
            Tail(list_of_names), Tail(list_of_contents))

save_uploaded_data(list_of_names, list_of_contents) ==
    /\ Len(upload_data_store) + Len(list_of_names) <= MaxFiles
    /\ upload_data_store' =
          append_valid(upload_data_store, list_of_names, list_of_contents)
    /\ UNCHANGED <<generating_data, btn_generate_disabled,
                   btn_download_disabled, runs, response>>
    /\ UNCHANGED chunkVars

\* a thread is alive from Thread.start() until generate_data returns or an
\* exception ends it
Alive(run) == run.pc \in {"start", "files", "pool"}

\* lines 159-162: threading.Thread(target=generate_data, args=...).start()
start_thread(quantity, files) ==
    Append(runs, [pc |-> "start", quantity |-> quantity, files |-> files,
                  idx |-> 1, chunks |-> 0, workers |-> 0])

\* line 156: the guard of the generate button
in_progress == generating_data

\* lines 141-164: generate_handler.  n is None on the initial call and the
\* click count otherwise; a click needs the button to be enabled
generate_handler(n, base_prompt, quantity) ==
    /\ n # None => ~ btn_generate_disabled
    /\ Len(runs) < MaxRuns
    /\ IF n = None
       THEN response' = "Button has not been clicked yet" /\ UNCHANGED runs
       ELSE IF quantity = None
       THEN response' = "TypeError" /\ UNCHANGED runs
       ELSE IF data_len >= quantity[1]
       THEN response' = "Already generated enough data" /\ UNCHANGED runs
       ELSE IF quantity[1] <= 0
       THEN response' = "Please enter a valid quantity" /\ UNCHANGED runs
       ELSE IF base_prompt = None \/ base_prompt = Some("")
       THEN response' = "Please enter a valid base prompt" /\ UNCHANGED runs
       ELSE IF in_progress
       THEN response' = "Data generation already in progress"
            /\ UNCHANGED runs
       ELSE /\ runs' = start_thread(quantity[1] - data_len, upload_data_store)
            /\ response' = "started"
    /\ UNCHANGED <<generating_data, upload_data_store,
                   btn_generate_disabled, btn_download_disabled>>
    /\ UNCHANGED chunkVars

\* lines 96-99: generate_data sets the flag
SetFlag(t) ==
    /\ runs[t].pc = "start"
    /\ generating_data' = TRUE
    /\ runs' = [runs EXCEPT ![t].pc = "files"]
    /\ UNCHANGED <<upload_data_store, btn_generate_disabled,
                   btn_download_disabled, response>>
    /\ UNCHANGED chunkVars

\* lines 101-112: one iteration of the loop over the files; an exception of
\* read_file or chunk_text is not caught and ends the thread
ReadFile(t) ==
    /\ runs[t].pc = "files"
    /\ runs[t].idx <= Len(runs[t].files)
    /\ LET file == runs[t].files[runs[t].idx]
       IN  runs' =
             IF read_file_raises(file) \/ chunk_text_raises(file)
             THEN [runs EXCEPT ![t].pc = "raised"]
             ELSE [runs EXCEPT ![t].idx = @ + 1,
                               ![t].chunks = @ + chunk_count(file)]
    /\ UNCHANGED <<generating_data, upload_data_store,
                   btn_generate_disabled, btn_download_disabled, response>>
    /\ UNCHANGED chunkVars

\* lines 115-118: chunks[:quantity], and the executor is entered
TrimChunks(t) ==
    /\ runs[t].pc = "files"
    /\ runs[t].idx > Len(runs[t].files)
    /\ runs' = [runs EXCEPT
          ![t].pc = "pool",
          ![t].chunks = IF @ < runs[t].quantity THEN @ ELSE runs[t].quantity]
    /\ UNCHANGED <<generating_data, upload_data_store,
                   btn_generate_disabled, btn_download_disabled, response>>
    /\ UNCHANGED chunkVars

\* lines 119-120: executor.submit(generate_data_thread, ...) for one chunk
Submit(t) ==
    /\ runs[t].pc = "pool"
    /\ runs[t].chunks > 0
    /\ runs' = [runs EXCEPT ![t].chunks = @ - 1, ![t].workers = @ + 1]
    /\ UNCHANGED <<generating_data, upload_data_store,
                   btn_generate_disabled, btn_download_disabled, response>>
    /\ UNCHANGED chunkVars

\* lines 78-91: a worker.  generate_prompt_generations(prompt) is called
\* without its second argument (gen.py line 13), the TypeError stays in the
\* future and the global data is not extended
generate_data_thread(t) ==
    /\ runs[t].pc = "pool"
    /\ runs[t].workers > 0
    /\ runs' = [runs EXCEPT ![t].workers = @ - 1]
    /\ UNCHANGED <<generating_data, upload_data_store,
                   btn_generate_disabled, btn_download_disabled, response>>
    /\ UNCHANGED chunkVars

\* lines 118-122: the executor is left once every worker has ended, and
\* the flag is cleared
ClearFlag(t) ==
    /\ runs[t].pc = "pool"
    /\ runs[t].chunks = 0
    /\ runs[t].workers = 0
    /\ generating_data' = FALSE
    /\ runs' = [runs EXCEPT ![t].pc = "finished"]
    /\ UNCHANGED <<upload_data_store, btn_generate_disabled,
                   btn_download_disabled, response>>
    /\ UNCHANGED chunkVars

\* lines 252-260: the interval callback of the generate button
enable_disable_generate_button ==
    /\ btn_generate_disabled' = generating_data
    /\ UNCHANGED <<generating_data, upload_data_store,
                   btn_download_disabled, runs, response>>
    /\ UNCHANGED chunkVars

\* lines 263-271: the interval callback of the download button
enable_disable_download_button ==
    /\ btn_download_disabled' = generating_data
    /\ UNCHANGED <<generating_data, upload_data_store,
                   btn_generate_disabled, runs, response>>
    /\ UNCHANGED chunkVars

\* the steps of the generate_data thread t
RunStep(t) ==
    \/ SetFlag(t)
    \/ ReadFile(t)
    \/ TrimChunks(t)
    \/ Submit(t)
    \/ generate_data_thread(t)
    \/ ClearFlag(t)

\* the values of n_clicks, of the base prompt and of the quantity
Clicks == {None, Some(1)}

BasePrompts == {None, Some(""), Some("prompt")}

Quantities == {None, Some(0), Some(1), Some(2), Some(3)}

\* the chunker is not part of the dashboard model: chunk_text is
\* represented by chunk_count and chunk_text_raises
ChunkerIdle ==
    /\ text = <<>>
    /\ min_chars = 40
    /\ max_chars = 160
    /\ sentence_list = <<>>
    /\ current_chunk = <<>>
    /\ chunks = <<>>
    /\ depth = 0
    /\ pc = "idle"
    /\ how = <<>>
    /\ dropped = <<>>

AppInit == AppStart /\ ChunkerIdle

AppNext ==
    \/ \E name \in FileNames : \E content \in Contents :
          save_uploaded_data(<<name>>, <<content>>)
    \/ \E n \in Clicks : \E b \in BasePrompts : \E q \in Quantities :
          generate_handler(n, b, q)
    \/ \E t \in DOMAIN runs : SetFlag(t)
    \/ \E t \in DOMAIN runs : ReadFile(t)
    \/ \E t \in DOMAIN runs : TrimChunks(t)
    \/ \E t \in DOMAIN runs : Submit(t)
    \/ \E t \in DOMAIN runs : generate_data_thread(t)
    \/ \E t \in DOMAIN runs : ClearFlag(t)
    \/ enable_disable_generate_button
    \/ enable_disable_download_button

\* the operating system schedules every thread: a step of a thread that
\* stays possible is eventually taken
AppSpec ==
    /\ AppInit
    /\ [][AppNext]_vars
    /\ \A t \in 1..MaxRuns : WF_vars(t \in DOMAIN runs /\ RunStep(t))

----------------------------------------------------------------------------
(***************************************************************************)
(* Properties of chunk_text.                                               *)
(***************************************************************************)
Returned == pc = "returned"

\* the emission points that occur among the returned chunks
Emissions == {how[k] : k \in DOMAIN how}

\* C1: every chunk has trimmed length at most max_chars, whichever of the
\* three emission points (forced slice, overflow, end of input) produced it
C1_ChunkAtMostMax ==
    \A k \in DOMAIN chunks : Len(chunks[k]) <= max_chars

C1_Witness ==
    /\ Returned
    /\ Emissions = {"slice", "overflow", "end"}
    /\ \E k \in DOMAIN chunks : Len(chunks[k]) = max_chars

\* C2: every chunk that does not come from the forced slice has trimmed
\* length at least min_chars
C2_ChunkAtLeastMin ==
    \A k \in DOMAIN chunks :
        how[k] # "slice" => Len(chunks[k]) >= min_chars

\* C3: with all whitespace removed, the concatenation of the returned
\* chunks equals the input
C3_ReconstructsInput ==
    Returned =>
        Str(text, NoWS(text, Flatten(chunks)))
            = Str(text, NoWS(text, Range(1, Len(text))))

\* the positions of the input that are in no dropped chunk, in order
NotDropped ==
    LET lost == PosSet(Flatten(dropped))
        kept(p) == p \notin lost
    IN  SelectSeq(Range(1, Len(text)), kept)

\* C3 (amended): with all whitespace removed, the concatenation of the
\* returned chunks equals the input without the chunks that the min_chars
\* filter dropped
C3_ReconstructsUndropped ==
    Returned =>
        Str(text, NoWS(text, Flatten(chunks)))
            = Str(text, NoWS(text, NotDropped))

C3_Witness ==
    /\ Returned
    /\ Len(chunks) >= 2
    /\ NoWS(text, Flatten(dropped)) # <<>>
    /\ \E k \in DOMAIN how : how[k] = "slice"

\* no position of t is matched by the sentence pattern: t is one sentence
SingleSentence(t) == \A i \in 1..Len(t) : ~ sentence_pattern(t, i)

\* C4: a call of chunk_text returns a list without raising, for any number
\* of sentences and any sentence length
C4_ReturnsWithoutRaising == pc # "RecursionError"

\* C5: the empty text, and a text that is one sentence shorter than
\* min_chars, give the empty list
C5_ShortTextGivesNothing ==
    (/\ Returned
     /\ \/ Len(text) = 0
        \/ SingleSentence(text) /\ Len(text) < min_chars)
    => chunks = <<>>

C5_Witness ==
    /\ Returned
    /\ Len(text) > 0
    /\ SingleSentence(text)
    /\ Len(text) < min_chars
    /\ chunks = <<>>

\* t is a non-empty run of characters that are neither whitespace nor
\* sentence punctuation
SolidRun(t) ==
    /\ Len(t) > 0
    /\ \A i \in 1..Len(t) : t[i] \notin Space \cup Terminal

\* C6: a single run of k * max_chars solid characters gives exactly k
\* chunks of exactly max_chars characters each
C6_RunOfMultiples ==
    (/\ Returned
     /\ SolidRun(text)
     /\ Len(text) % max_chars = 0)
    => /\ Len(chunks) = Len(text) \div max_chars
       /\ \A k \in DOMAIN chunks : Len(chunks[k]) = max_chars

C6_Witness ==
    /\ Returned
    /\ SolidRun(text)
    /\ Len(text) % max_chars = 0
    /\ Len(text) >= 2 * max_chars
    /\ min_chars = max_chars
    /\ max_chars > 1
    /\ Len(chunks) = Len(text) \div max_chars

\* C7: the chunks are in document order and share no character: the input
\* positions of the chunks, read chunk after chunk, strictly increase
C7_DocumentOrder ==
    LET all == Flatten(chunks)
    IN  \A i, j \in DOMAIN all : i < j => all[i] < all[j]

C7_Witness ==
    /\ Returned
    /\ Len(chunks) >= 3
    /\ dropped # <<>>

\* C8: a sentence of at most max_chars characters is never divided (a chunk
\* has none of it or all of it but trimmed whitespace), and the forced slice
\* acts only on text of one sentence longer than max_chars
C8_SliceOnlyOversized ==
    LET ss == sentences(text)
    IN  /\ \A n \in DOMAIN ss : \A k \in DOMAIN chunks :
              Len(ss[n]) <= max_chars =>
                  \/ PosSet(ss[n]) \cap PosSet(chunks[k]) = {}
                  \/ PosSet(strip(text, ss[n])) \subseteq PosSet(chunks[k])
        /\ (pc = "call" /\ TooLong(current_chunk)) =>
              \E n \in DOMAIN ss :
                  /\ Len(ss[n]) > max_chars
                  /\ PosSet(current_chunk) \subseteq PosSet(ss[n])

C8_Witness ==
    /\ Returned
    /\ "slice" \in Emissions
    /\ max_chars > 1
    /\ \E n \in DOMAIN sentences(text) : \E k \in DOMAIN chunks :
          /\ Len(sentences(text)[n]) <= max_chars
          /\ how[k] # "slice"
          /\ strip(text, sentences(text)[n]) # <<>>
          /\ PosSet(sentences(text)[n]) \subseteq PosSet(chunks[k])

----------------------------------------------------------------------------
(***************************************************************************)
(* Properties of the dashboard.                                            *)
(***************************************************************************)
\* C9: at most one generate_data thread is alive at any time
C9_AtMostOneRun ==
    Cardinality({t \in DOMAIN runs : Alive(runs[t])}) <= 1

\* C10: whenever generating_data is True it eventually becomes False again
C10_FlagEventuallyCleared == generating_data ~> ~ generating_data

====
